---- MODULE Spec2Model ----
(***************************************************************************)
(* Pepper service primitives: the hybrid asymmetric encryption scheme      *)
(* "Scheme1" (asymmetric_encryption/scheme1.rs) and the pairing VUF        *)
(* "Scheme0" (vuf/scheme0.rs).                                             *)
(*                                                                         *)
(* Byte strings are sequences over 0..255 and keep their real lengths.     *)
(* The groups are scaled down: the prime-order group of Curve25519 is      *)
(* Z_Q written additively with generator 1, and the three BLS12-381        *)
(* groups are Z_R with the pairing e(a, b) = a * b (the target group is    *)
(* written additively, so Fq12::ONE is 0).  The hash functions and the     *)
(* AEAD cipher are keyed checksums with the lengths of the real ones.      *)
(***************************************************************************)
EXTENDS Integers, Sequences, FiniteSets, TLC

VARIABLES
    hsk,      \* hybrid secret key bytes held by the caller (<<>> before key_gen)
    hpk,      \* hybrid public key bytes held by the caller
    call,     \* the last Scheme1 call: operation, arguments, result
    vsk,      \* VUF secret key bytes held by the caller (<<>> before setup)
    vpk,      \* VUF public key bytes held by the caller
    vcall,    \* the last Scheme0 call: operation, arguments, result
    firstEval \* the first eval call made

vars == <<hsk, hpk, call, vsk, vpk, vcall, firstEval>>
hvars == <<hsk, hpk, call>>
vvars == <<vsk, vpk, vcall, firstEval>>

----------------------------------------------------------------------------
(* Bounds of the model *)

\* longest message drawn over MsgBytes (the 81-byte message is drawn besides)
MaxMsgLen == 2
\* nonces drawn from aead_rng have first byte 0..MaxNonce
MaxNonce == 1
\* longest VUF input drawn over InBytes
MaxInLen == 1

----------------------------------------------------------------------------
(* Byte strings and results *)

\* n bytes, little-endian, of a value below 256
LE(v, n) == [i \in 1..n |-> IF i = 1 THEN v ELSE 0]

\* b with the byte at position p (from 1) set to v
SetByte(b, p, v) == [i \in 1..Len(b) |-> IF i = p THEN v ELSE b[i]]

\* all bytes after the first are zero
HighZero(b) == \A i \in 2..Len(b) : b[i] = 0

\* s[a..b) as Rust slices it; the caller checks SliceOk first (Rust faults otherwise)
Slice(s, a, b) == SubSeq(s, a + 1, b)
SliceOk(s, a, b) == a <= b /\ b <= Len(s)

RECURSIVE Sum0(_, _)
\* sum over i <= n of s[i]
Sum0(s, n) == IF n = 0 THEN 0 ELSE s[n] + Sum0(s, n - 1)

RECURSIVE Sum1(_, _)
\* sum over i <= n of i * s[i]
Sum1(s, n) == IF n = 0 THEN 0 ELSE n * s[n] + Sum1(s, n - 1)

Ok(v) == [ok |-> TRUE, err |-> "", val |-> v]
Err(e) == [ok |-> FALSE, err |-> e, val |-> <<>>]
\* an out-of-range slice: the thread panics, no value is returned
Panic == [ok |-> FALSE, err |-> "panic", val |-> <<>>]

----------------------------------------------------------------------------
(* Curve25519 group, scalars and compressed points *)

\* order of the prime-order group (scaled down)
Q == 3
Scalar == 0..(Q - 1)
Element == 0..(Q - 1)

ElemLen == 32
NonceLen == 12
TagLen == 16
HeaderLen == 76

\* Scalar::to_bytes
scalar_to_bytes(s) == LE(s, 32)
\* Scalar::from_canonical_bytes: Some only for the canonical encoding of a value < Q
scalar_canonical(b) == b[1] < Q /\ HighZero(b)
scalar_from_bytes(b) == b[1]

\* EdwardsPoint::compress / CompressedEdwardsY::decompress
compress(e) == LE(e, ElemLen)
decompressible(b) == b[1] < Q /\ HighZero(b)
decompress(b) == b[1]

\* elgamal over the group
generator_mul(s) == s % Q
g_mul(e, s) == (e * s) % Q
g_add(a, b) == (a + b) % Q
g_sub(a, b) == (a - b + Q) % Q

elgamal_key_gen(s) == <<s, generator_mul(s)>>
elgamal_encrypt(r, pk, m) == <<generator_mul(r), g_add(m, g_mul(pk, r))>>
elgamal_decrypt(sk, c0, c1) == g_sub(c1, g_mul(c0, sk))

----------------------------------------------------------------------------
(* SHA3-256 key derivation and AES-256-GCM *)

\* b"DST__AES_KEY_DERIVATION"
DST_AES == <<68, 83, 84, 95, 95, 65, 69, 83, 95, 75, 69, 89, 95, 68, 69, 82,
             73, 86, 65, 84, 73, 79, 78>>

\* digest byte i is the sum over j of (i + j) * data[j], mod 256
Sha3_256(data) ==
    LET s0 == Sum0(data, Len(data))
        s1 == Sum1(data, Len(data))
    IN  [i \in 1..32 |-> (s1 + i * s0) % 256]

hash_group_element_to_aes_key(element) == Sha3_256(DST_AES \o element)

keystream(key, nonce, i) ==
    (key[((i - 1) % 32) + 1] + nonce[((i - 1) % NonceLen) + 1] + i) % 256

\* tag byte j is keyed by key[j] and the nonce and sums (i + j) * c[i] over the
\* ciphertext, so that it changes with every single byte of it
gcm_tag(key, nonce, c) ==
    LET s0 == Sum0(c, Len(c))
        s1 == Sum1(c, Len(c))
    IN  [j \in 1..TagLen |->
            (key[j] + nonce[((j - 1) % NonceLen) + 1] + Len(c) + s1 + j * s0) % 256]

\* Aes256Gcm::encrypt: ciphertext of the message's length, then the 16-byte tag
aead_encrypt(key, nonce, m) ==
    LET c == [i \in 1..Len(m) |-> (m[i] + keystream(key, nonce, i)) % 256]
    IN  c \o gcm_tag(key, nonce, c)

\* Aes256Gcm::decrypt: Err on a payload shorter than the tag or a tag mismatch
aead_decrypt_ok(key, nonce, payload) ==
    /\ Len(payload) >= TagLen
    /\ LET n == Len(payload) - TagLen
       IN  SubSeq(payload, n + 1, Len(payload)) = gcm_tag(key, nonce, SubSeq(payload, 1, n))

aead_decrypt(key, nonce, payload) ==
    [i \in 1..(Len(payload) - TagLen) |->
        (payload[i] - keystream(key, nonce, i) + 256) % 256]

----------------------------------------------------------------------------
(* Scheme1 *)

\* key_gen: the scalar s is drawn from rng
key_gen(s) ==
    LET kp == elgamal_key_gen(s)
    IN  <<scalar_to_bytes(kp[1]), compress(kp[2])>>


\* a length check that lets short buffers through
PkLenOk_atMost(pk) == Len(pk) <= 32

PkLenOk(pk) == ~(Len(pk) # 32)


\* a nonce that does not come from aead_rng
generate_nonce_fixed(drawn) == LE(0, NonceLen)

\* Aes256Gcm::generate_nonce: the 12 bytes drawn from aead_rng
generate_nonce(drawn) == drawn

\* the nonce written after the AEAD output
serialize_nonceLast(c0, c1, nonce_bytes, aes_ciphertext) ==
    compress(c0) \o compress(c1) \o aes_ciphertext \o nonce_bytes

\* the serialized ciphertext
serialize(c0, c1, nonce_bytes, aes_ciphertext) ==
    compress(c0) \o compress(c1) \o nonce_bytes \o aes_ciphertext

\* enc: re (the random group element) and rs (the elgamal scalar) are drawn from
\* main_rng, nonce from aead_rng
enc(re, rs, nonce, pk, m) ==
    IF ~PkLenOk(pk)
    THEN Err("asymmetric_encryption::scheme1::enc failed with incorrect pk length")
    ELSE IF Len(pk) # ElemLen THEN Panic   \* CompressedEdwardsY::from_slice
    ELSE IF ~decompressible(pk)
    THEN Err("asymmetric_encryption::scheme1::enc failed with invalid pk element")
    ELSE LET pkE == decompress(pk)
             aes_key_g1 == re
             c == elgamal_encrypt(rs, pkE, aes_key_g1)
             aes_key_bytes == hash_group_element_to_aes_key(compress(aes_key_g1))
             nonce_bytes == generate_nonce(nonce)
         IN  IF ~(12 = Len(nonce_bytes))
             THEN Err("asymmetric_encryption::scheme1::enc failed with unexpected nonce len")
             ELSE Ok(serialize(c[1], c[2], nonce_bytes,
                               aead_encrypt(aes_key_bytes, nonce_bytes, m)))


\* a length check that forgets the nonce
CtLenOk_noNonce(ciphertext) == Len(ciphertext) >= 64

CtLenOk(ciphertext) == Len(ciphertext) >= 76


\* c0 and c1 handed to elgamal::decrypt in the wrong order
dec_key_element_swapped(sk_scalar, c0, c1) == compress(elgamal_decrypt(sk_scalar, c1, c0))

\* the element whose hash is the AES key
dec_key_element(sk_scalar, c0, c1) == compress(elgamal_decrypt(sk_scalar, c0, c1))

\* the AEAD payload of a ciphertext
dec_payload(ciphertext) == Slice(ciphertext, 76, Len(ciphertext))


\* the payload decrypted without its tag being checked
dec_aead_unchecked(key, nonce, payload) ==
    IF Len(payload) < TagLen
    THEN Err("asymmetric_encryption::scheme1::dec failed with aes decryption error")
    ELSE Ok(aead_decrypt(key, nonce, payload))

\* the AEAD step of dec
dec_aead(key, nonce, payload) ==
    IF ~aead_decrypt_ok(key, nonce, payload)
    THEN Err("asymmetric_encryption::scheme1::dec failed with aes decryption error")
    ELSE Ok(aead_decrypt(key, nonce, payload))

dec(sk, ciphertext) ==
    IF Len(sk) # 32
    THEN Err("asymmetric_encryption::scheme1::dec failed with incorrect sk length")
    ELSE IF ~scalar_canonical(sk)
    THEN Err("asymmetric_encryption::scheme1::dec failed with sk deserialization error")
    ELSE IF ~CtLenOk(ciphertext)
    THEN Err("asymmetric_encryption::scheme1::dec failed with invalid ciphertext length")
    ELSE IF ~SliceOk(ciphertext, 0, 32) THEN Panic
    ELSE IF ~decompressible(Slice(ciphertext, 0, 32))
    THEN Err("asymmetric_encryption::scheme1::dec failed with invalid c0 element")
    ELSE IF ~SliceOk(ciphertext, 32, 64) THEN Panic
    ELSE IF ~decompressible(Slice(ciphertext, 32, 64))
    THEN Err("asymmetric_encryption::scheme1::dec failed with invalid c1 element")
    ELSE IF ~SliceOk(ciphertext, 64, 76) \/ ~SliceOk(ciphertext, 76, Len(ciphertext))
    THEN Panic
    ELSE LET sk_scalar == scalar_from_bytes(sk)
             c0 == decompress(Slice(ciphertext, 0, 32))
             c1 == decompress(Slice(ciphertext, 32, 64))
             aes_key_bytes == hash_group_element_to_aes_key(dec_key_element(sk_scalar, c0, c1))
             nonce == Slice(ciphertext, 64, 76)
         IN  dec_aead(aes_key_bytes, nonce, dec_payload(ciphertext))

----------------------------------------------------------------------------
(* Inputs of the Scheme1 calls *)

MsgBytes == {7}

RECURSIVE SeqsUpTo(_, _)
SeqsUpTo(S, n) ==
    IF n = 0 THEN {<<>>}
    ELSE LET shorter == SeqsUpTo(S, n - 1)
         IN  shorter \cup {Append(s, x) : s \in {t \in shorter : Len(t) = n - 1}, x \in S}

\* an 81-byte message
Msg81 == [i \in 1..81 |-> 97 + (i % 26)]

Msgs == SeqsUpTo(MsgBytes, MaxMsgLen) \cup {Msg81}

Nonces == {LE(n, NonceLen) : n \in 0..MaxNonce}

\* public-key buffers of a wrong length
BadLenPks(pk) == {<<>>, SubSeq(pk, 1, 31), pk \o <<0>>}
\* 32-byte buffers that are no compressed point
BadElemPks(pk) == {LE(Q, 32), SetByte(pk, 32, 1), [i \in 1..32 |-> 255]}

\* secret-key buffers dec must refuse
BadSks(sk) == {<<>>, SubSeq(sk, 1, 31), sk \o <<0>>, LE(Q, 32), SetByte(sk, 32, 16)}

\* lengths a ciphertext is cut to
TruncLens == {0, 32, 64, 75, 76, 91}

TamperDeltas == {1, 128}

Tampered(c, p, d) == SetByte(c, p, (c[p] + d) % 256)

NoCall == [op |-> "none"]

----------------------------------------------------------------------------
(* Scheme1 calls, in the order of the gen_enc_dec test: key_gen, enc, dec *)

KeyGen ==
    /\ call.op = "none"
    /\ \E s \in Scalar :
         LET kp == key_gen(s)
         IN  /\ hsk' = kp[1]
             /\ hpk' = kp[2]
             /\ call' = [op |-> "key_gen"]
    /\ UNCHANGED vvars

EncCall(re, rs, nonce, pk, m) ==
    /\ call.op = "key_gen"
    /\ call' = [op |-> "enc", pk |-> pk, msg |-> m, re |-> re, rs |-> rs,
                nonce |-> nonce, res |-> enc(re, rs, nonce, pk, m)]
    /\ UNCHANGED <<hsk, hpk>>
    /\ UNCHANGED vvars

Enc ==
    /\ call.op = "key_gen"
    /\ \E re \in Element, rs \in Scalar, nonce \in Nonces, m \in Msgs :
         EncCall(re, rs, nonce, hpk, m)

EncBadPk ==
    /\ call.op = "key_gen"
    /\ \E re \in Element, rs \in Scalar, nonce \in Nonces, m \in Msgs,
          pk \in BadLenPks(hpk) \cup BadElemPks(hpk) :
         EncCall(re, rs, nonce, pk, m)

DecCall(kind, sk, c) ==
    /\ call' = [op |-> "dec", kind |-> kind, sk |-> sk, ct |-> c,
                enc |-> call, res |-> dec(sk, c)]
    /\ UNCHANGED <<hsk, hpk>>
    /\ UNCHANGED vvars

\* the caller holds a ciphertext that enc returned
HasCt == call.op = "enc" /\ call.res.ok

Dec ==
    /\ HasCt
    /\ DecCall("honest", hsk, call.res.val)

DecBadSk ==
    /\ HasCt
    /\ \E sk \in BadSks(hsk) : DecCall("badsk", sk, call.res.val)

DecTruncated ==
    /\ HasCt
    /\ \E n \in TruncLens, sk \in {hsk, <<>>, LE(Q, 32)} :
         /\ n < Len(call.res.val)
         /\ DecCall("truncated", sk, SubSeq(call.res.val, 1, n))

DecTampered ==
    /\ HasCt
    /\ \E p \in 1..Len(call.res.val), d \in TamperDeltas :
         /\ p > HeaderLen
         /\ DecCall("tampered", hsk, Tampered(call.res.val, p, d))

\* a second enc call with the public key and message of the first and randomness
\* drawn anew
EncAgain ==
    /\ HasCt
    /\ \E re \in Element, rs \in Scalar, nonce \in Nonces :
         call' = [op |-> "enc_again", pk |-> call.pk, msg |-> call.msg, re |-> re,
                  rs |-> rs, nonce |-> nonce, first |-> call,
                  res |-> enc(re, rs, nonce, call.pk, call.msg)]
    /\ UNCHANGED <<hsk, hpk>>
    /\ UNCHANGED vvars

NextEnc ==
    KeyGen \/ Enc \/ EncBadPk \/ EncAgain \/ Dec \/ DecBadSk \/ DecTruncated \/ DecTampered

----------------------------------------------------------------------------
(* BLS12-381: scalar field, G1, G2 and the pairing *)

\* order of the scalar field and of G1, G2 and GT (scaled down)
R == 3
Fr == 0..(R - 1)

FrLen == 32
G1Len == 48
G2Len == 96

\* Fr: serialize_compressed and serialize_uncompressed write the same 32 bytes; the
\* deserializers read 32 bytes from the front of the buffer and refuse a value >= R
Fr_serialize_compressed(s) == LE(s, FrLen)
Fr_readable(b) == Len(b) >= FrLen /\ b[1] < R /\ HighZero(SubSeq(b, 1, FrLen))
Fr_deserialize_compressed_ok(b) == Fr_readable(b)
Fr_deserialize_uncompressed_ok(b) == Fr_readable(b)
Fr_deserialize_compressed(b) == b[1]
\* the 32 bytes read from the other end
Fr_deserialize_uncompressed_bigEndian(b) == b[FrLen]

Fr_deserialize_uncompressed(b) == b[1]

\* compressed points carry the compression flag (128) in their first byte
point_serialize_compressed(e, n) == LE(128 + e, n)
point_readable(b, n) ==
    /\ Len(b) >= n
    /\ b[1] >= 128
    /\ b[1] - 128 < R
    /\ HighZero(SubSeq(b, 1, n))
point_deserialize_compressed(b) == b[1] - 128

G1_serialize_compressed(e) == point_serialize_compressed(e, G1Len)
G1_deserialize_compressed_ok(b) == point_readable(b, G1Len)
G2_serialize_compressed(e) == point_serialize_compressed(e, G2Len)
G2_deserialize_compressed_ok(b) == point_readable(b, G2Len)

G1_generator == 1
G2_generator == 1
point_mul(e, s) == (e * s) % R
point_neg(e) == (R - e) % R

\* Fq12::ONE, the identity of the target group
Fq12_ONE == 0
\* the product of the pairings e(a[i], b[i])
multi_pairing(a, b) == (a[1] * b[1] + a[2] * b[2]) % R

\* b"APTOS_OIDB_VUF_SCHEME0_DST"
DST == <<65, 80, 84, 79, 83, 95, 79, 73, 68, 66, 95, 86, 85, 70, 95, 83, 67, 72,
         69, 77, 69, 48, 95, 68, 83, 84>>

\* hash to a point of G1 other than the identity
hash_to_g1(input) ==
    1 + ((Sum0(DST, Len(DST)) + Sum1(input, Len(input)) + Len(input)) % (R - 1))

----------------------------------------------------------------------------
(* Scheme0 *)

\* setup: the scalar s is drawn from rng
setup(s) ==
    <<Fr_serialize_compressed(s), G2_serialize_compressed(point_mul(G2_generator, s))>>


\* the public key computed and serialized in G1
pk_from_sk_inG1(sk) ==
    IF ~Fr_deserialize_compressed_ok(sk)
    THEN Err("vuf::scheme0::pk_from_sk failed with sk deserialization error")
    ELSE Ok(G1_serialize_compressed(point_mul(G1_generator, Fr_deserialize_compressed(sk))))

pk_from_sk(sk) ==
    IF ~Fr_deserialize_compressed_ok(sk)
    THEN Err("vuf::scheme0::pk_from_sk failed with sk deserialization error")
    ELSE Ok(G2_serialize_compressed(point_mul(G2_generator, Fr_deserialize_compressed(sk))))

\* the proof eval returns
eval_proof == <<>>


\* an output that depends on whether eval has been called before
eval_output_stateful(input_g1, sk_scalar) ==
    point_mul(input_g1, sk_scalar + (IF firstEval.op = "none" THEN 0 ELSE 1))

\* the output point of eval
eval_output(input_g1, sk_scalar) == point_mul(input_g1, sk_scalar)

eval(sk, input) ==
    IF ~Fr_deserialize_uncompressed_ok(sk)
    THEN Err("vuf::scheme0::eval failed with ok deserialization error")
    ELSE LET sk_scalar == Fr_deserialize_uncompressed(sk)
             input_g1 == hash_to_g1(input)
             output_g1 == eval_output(input_g1, sk_scalar)
         IN  Ok(<<G1_serialize_compressed(output_g1), eval_proof>>)


\* the proof is not looked at
ProofOk_ignored(proof) == TRUE

ProofOk(proof) == Len(proof) = 0


\* the output is not negated
pairing_check_noNeg(output_g1, input_g1, pk_g2) ==
    Fq12_ONE = multi_pairing(<<output_g1, input_g1>>, <<G2_generator, pk_g2>>)

\* the public key is left out of the pairing
pairing_check_noPk(output_g1, input_g1, pk_g2) ==
    Fq12_ONE = multi_pairing(<<point_neg(output_g1), input_g1>>, <<G2_generator, G2_generator>>)

\* the final check of verify
pairing_check(output_g1, input_g1, pk_g2) ==
    Fq12_ONE = multi_pairing(<<point_neg(output_g1), input_g1>>, <<G2_generator, pk_g2>>)

verify(pk, input, output, proof) ==
    IF ~ProofOk(proof)
    THEN Err("vuf::scheme0::verify failed with proof deserialization error")
    ELSE IF ~G2_deserialize_compressed_ok(pk)
    THEN Err("vuf::scheme0::verify failed with pk deserialization error")
    ELSE IF ~G1_deserialize_compressed_ok(output)
    THEN Err("vuf::scheme0::verify failed with output deserialization error")
    ELSE IF ~pairing_check(point_deserialize_compressed(output), hash_to_g1(input),
                           point_deserialize_compressed(pk))
    THEN Err("vuf::scheme0::verify failed with final check failure")
    ELSE Ok(<<>>)

----------------------------------------------------------------------------
(* Inputs of the Scheme0 calls *)

InBytes == {1}
Inputs == SeqsUpTo(InBytes, MaxInLen)

\* the secret key of another setup
OtherSk(sk) == Fr_serialize_compressed((sk[1] + 1) % R)

\* secret-key buffers: the held one, too short, not canonical, with a byte appended
SkBuffers(sk) == {sk, SubSeq(sk, 1, 31), LE(R, FrLen), sk \o <<9>>}

\* public-key buffers: the held one, another key's, no point, too short
PkBuffers(pk, sk) == {pk, pk_from_sk(OtherSk(sk)).val, LE(R, G2Len), SubSeq(pk, 1, 95)}

\* output buffers: the output of eval, that of another key, the output with its
\* first or last byte changed, cut by a byte, with a byte appended
OutputBuffers(sk, input) ==
    LET out == eval(sk, input).val[1]
    IN  {out, eval(OtherSk(sk), input).val[1], SetByte(out, 1, 128 + ((out[1] - 127) % R)),
         SetByte(out, G1Len, 1), SubSeq(out, 1, G1Len - 1), out \o <<0>>}

Proofs == {<<>>, <<0>>}

----------------------------------------------------------------------------
(* Scheme0 calls: setup once, then pk_from_sk, eval and verify in any order *)

Setup ==
    /\ vsk = <<>>
    /\ \E s \in Fr :
         LET kp == setup(s)
         IN  /\ vsk' = kp[1]
             /\ vpk' = kp[2]
    /\ UNCHANGED <<vcall, firstEval>>
    /\ UNCHANGED hvars

PkFromSk ==
    /\ vsk # <<>>
    /\ \E sk \in SkBuffers(vsk) :
         vcall' = [op |-> "pk_from_sk", sk |-> sk, res |-> pk_from_sk(sk)]
    /\ UNCHANGED <<vsk, vpk, firstEval>>
    /\ UNCHANGED hvars

Eval ==
    /\ vsk # <<>>
    /\ \E sk \in SkBuffers(vsk), input \in Inputs :
         LET rec == [op |-> "eval", sk |-> sk, input |-> input, res |-> eval(sk, input),
                     again |-> firstEval.op # "none"]
         IN  /\ vcall' = rec
             /\ firstEval' = IF firstEval.op = "none" THEN rec ELSE firstEval
    /\ UNCHANGED <<vsk, vpk>>
    /\ UNCHANGED hvars

Verify ==
    /\ vsk # <<>>
    /\ \E input \in Inputs, proof \in Proofs :
         \E pk \in PkBuffers(vpk, vsk), output \in OutputBuffers(vsk, input) :
            vcall' = [op |-> "verify", pk |-> pk, input |-> input, output |-> output,
                      proof |-> proof, res |-> verify(pk, input, output, proof)]
    /\ UNCHANGED <<vsk, vpk, firstEval>>
    /\ UNCHANGED hvars

NextVuf == Setup \/ PkFromSk \/ Eval \/ Verify

Init ==
    /\ hsk = <<>>
    /\ hpk = <<>>
    /\ call = NoCall
    /\ vsk = <<>>
    /\ vpk = <<>>
    /\ vcall = NoCall
    /\ firstEval = NoCall

SpecEnc == Init /\ [][NextEnc]_vars
SpecVuf == Init /\ [][NextVuf]_vars

----------------------------------------------------------------------------
(* Properties of Scheme1, checked under SpecEnc *)

\* the ciphertext the last dec call was given is the one enc returned
DecOfEncOutput == call.op = "dec" /\ call.ct = call.enc.res.val

\* C1: hybrid round trip.  enc under the public key of key_gen succeeds for every
\* message and every randomness, and dec of that ciphertext under the secret key
\* of the same key_gen succeeds and returns exactly the message.
C1_RoundTrip ==
    /\ (call.op = "enc" /\ call.pk = hpk) => call.res.ok
    /\ (DecOfEncOutput /\ call.sk = hsk /\ call.enc.pk = hpk) =>
           (call.res.ok /\ call.res.val = call.enc.msg)

\* the zero-length message came back from dec
C1_Witness ==
    /\ DecOfEncOutput /\ call.sk = hsk
    /\ call.enc.msg = <<>> /\ call.enc.re # 0 /\ call.enc.rs # 0
    /\ call.res.ok /\ call.res.val = <<>>

\* C5: dec of a ciphertext shorter than 76 bytes returns a failure value for every
\* sk and never faults on a slice; with a 32-byte canonical sk the failure is the
\* invalid-ciphertext-length one.
C5_ShortCiphertext ==
    (call.op = "dec" /\ Len(call.ct) < 76) =>
        /\ ~call.res.ok
        /\ call.res # Panic
        /\ (Len(call.sk) = 32 /\ scalar_canonical(call.sk)) =>
               call.res =
                 Err("asymmetric_encryption::scheme1::dec failed with invalid ciphertext length")

\* a 75-byte ciphertext was refused for its length
C5_Witness ==
    /\ call.op = "dec" /\ Len(call.ct) = 75 /\ call.sk = hsk
    /\ call.res.err = "asymmetric_encryption::scheme1::dec failed with invalid ciphertext length"

\* C6: enc with a public-key buffer whose length is not 32 returns the
\* incorrect-pk-length failure, and with a 32-byte buffer that is no curve point
\* the invalid-pk-element failure; neither returns ciphertext bytes.
C6_BadPublicKey ==
    call.op = "enc" =>
        /\ Len(call.pk) # 32 =>
               call.res = Err("asymmetric_encryption::scheme1::enc failed with incorrect pk length")
        /\ (Len(call.pk) = 32 /\ ~decompressible(call.pk)) =>
               call.res = Err("asymmetric_encryption::scheme1::enc failed with invalid pk element")
        /\ ~call.res.ok => call.res.val = <<>>

\* a 31-byte public key was refused for its length
C6_Witness ==
    /\ call.op = "enc" /\ Len(call.pk) = 31 /\ call.msg # <<>>
    /\ call.res.err = "asymmetric_encryption::scheme1::enc failed with incorrect pk length"

\* the fields of the ciphertext of the last successful enc call
EncFields(c) ==
    LET e == elgamal_encrypt(c.rs, decompress(c.pk), c.re)
        key == hash_group_element_to_aes_key(compress(c.re))
    IN  [c0 |-> compress(e[1]), c1 |-> compress(e[2]), nonce |-> c.nonce,
         aead |-> aead_encrypt(key, c.nonce, c.msg)]

\* C8: wire format.  A successful enc returns compressed(c0) (32 bytes), then
\* compressed(c1) (32 bytes), the 12-byte nonce and the AEAD ciphertext with its
\* 16-byte tag: 76 + len(msg) + 16 bytes, and the payload dec hands to the AEAD
\* cipher is the part from offset 76 on.
C8_WireFormat ==
    (call.op = "enc" /\ call.res.ok) =>
        LET ct == call.res.val
            f == EncFields(call)
        IN  /\ Len(ct) = 76 + Len(call.msg) + 16
            /\ Len(call.msg) = 81 => Len(ct) = 173
            /\ Len(call.msg) = 0 => Len(ct) = 92
            /\ Slice(ct, 0, 32) = f.c0
            /\ Slice(ct, 32, 64) = f.c1
            /\ Slice(ct, 64, 76) = f.nonce
            /\ Len(f.nonce) = 12
            /\ dec_payload(ct) = f.aead
            /\ Len(f.aead) = Len(call.msg) + 16

\* the 81-byte message gave a 173-byte ciphertext
C8_Witness ==
    /\ call.op = "enc" /\ call.res.ok
    /\ Len(call.msg) = 81 /\ Len(call.res.val) = 173

\* the positions at which two byte strings of one length differ
DiffAt(a, b) == {i \in 1..Len(a) : a[i] # b[i]}

\* the last dec call was given the ciphertext of enc with one byte of the AEAD
\* region (offset 76 and up) changed, and the matching secret key
DecOfTampered ==
    /\ call.op = "dec" /\ call.sk = hsk /\ call.enc.pk = hpk
    /\ Len(call.ct) = Len(call.enc.res.val)
    /\ Cardinality(DiffAt(call.ct, call.enc.res.val)) = 1
    /\ \A i \in DiffAt(call.ct, call.enc.res.val) : i - 1 >= 76

\* C9: tamper detection.  Changing any single byte at offset >= 76 of a valid
\* ciphertext makes dec under the matching key return the AEAD decryption
\* failure; no plaintext is returned.
C9_TamperDetected ==
    DecOfTampered =>
        call.res = Err("asymmetric_encryption::scheme1::dec failed with aes decryption error")

\* a byte of the encrypted message (not of the tag) was changed and dec failed
C9_Witness ==
    /\ DecOfTampered
    /\ Len(call.enc.msg) = 2
    /\ DiffAt(call.ct, call.enc.res.val) = {77}
    /\ ~call.res.ok

\* the randomness drawn by an enc call
Drawn(c) == <<c.re, c.rs, c.nonce>>

\* C11: encryption is probabilistic.  Two successful enc calls with the same pk
\* and message whose drawn randomness differs in any component (the random group
\* element, the elgamal scalar or the nonce) return different ciphertexts.
C11_Probabilistic ==
    (/\ call.op = "enc_again" /\ call.res.ok /\ call.first.res.ok
     /\ Drawn(call) # Drawn(call.first)) => call.res.val # call.first.res.val

\* two calls that drew the same group element and nonce and different elgamal
\* scalars, under the identity public key, returned different ciphertexts
C11_Witness ==
    /\ call.op = "enc_again" /\ call.res.ok /\ call.first.res.ok
    /\ call.pk = hpk /\ decompress(hpk) = 0
    /\ call.re = call.first.re /\ call.nonce = call.first.nonce
    /\ call.rs # call.first.rs
    /\ call.res.val # call.first.res.val

----------------------------------------------------------------------------
(* Properties of Scheme0, checked under SpecVuf *)

\* what eval returns for the held secret key
HeldEval(input) == eval(vsk, input)

\* C2: VUF completeness.  eval under the secret key of setup succeeds with a
\* non-empty output and an empty proof, and verify under the public key of the same
\* setup with exactly that output and proof succeeds.
C2_Completeness ==
    /\ (vcall.op = "eval" /\ vcall.sk = vsk) =>
           /\ vcall.res.ok
           /\ Len(vcall.res.val[1]) > 0
           /\ vcall.res.val[2] = <<>>
           /\ verify(vpk, vcall.input, vcall.res.val[1], vcall.res.val[2]).ok
    /\ (/\ vcall.op = "verify" /\ vcall.pk = vpk
        /\ vcall.output = HeldEval(vcall.input).val[1]
        /\ vcall.proof = HeldEval(vcall.input).val[2]) => vcall.res.ok

\* verify accepted the output of eval, for a secret key other than 0
C2_Witness ==
    /\ vcall.op = "verify" /\ vcall.pk = vpk /\ vsk[1] # 0
    /\ firstEval.op = "eval" /\ firstEval.sk = vsk /\ firstEval.input = vcall.input
    /\ vcall.output = firstEval.res.val[1] /\ vcall.proof = firstEval.res.val[2]
    /\ vcall.res.ok

C4_KeyConsistency ==
    /\ vsk # <<>> => pk_from_sk(vsk) = Ok(vpk)
    /\ (vcall.op = "pk_from_sk" /\ vcall.sk = vsk) => vcall.res = Ok(vpk)

\* pk_from_sk returned the public key of setup, for a secret key other than 0
C4_Witness ==
    /\ vcall.op = "pk_from_sk" /\ vcall.sk = vsk /\ vsk[1] # 0
    /\ vcall.res.ok /\ vcall.res.val = vpk

\* C7: verify refuses every non-empty proof with the proof failure, whatever the
\* pk, input and output buffers hold.
C7_NonEmptyProof ==
    (vcall.op = "verify" /\ Len(vcall.proof) >= 1) =>
        vcall.res = Err("vuf::scheme0::verify failed with proof deserialization error")

\* a non-empty proof was refused although pk and output were the matching ones
C7_Witness ==
    /\ vcall.op = "verify" /\ Len(vcall.proof) >= 1
    /\ vcall.pk = vpk /\ vcall.output = HeldEval(vcall.input).val[1]
    /\ vcall.res = Err("vuf::scheme0::verify failed with proof deserialization error")

====
